---- MODULE Spec2Model ----
(***************************************************************************)
(* A model of the easyslog handler (src/easyslog.go, src/attr.go).         *)
(*                                                                         *)
(* Attr nodes live in a heap of records addressed by pointer (a positive   *)
(* index), so that aliasing between the trees of different handlers can be *)
(* expressed.  The groupIndices slices of the handlers are Go slices: a    *)
(* backing array, a length and a capacity, with Go's append semantics on   *)
(* a 64-bit build (capacities 1, 2, 4, 8, ...).                            *)
(***************************************************************************)
EXTENDS Integers, Sequences, FiniteSets

VARIABLES opts, handlers, ghost, heap, arrays, calls, sink, mu, last

vars == <<opts, handlers, ghost, heap, arrays, calls, sink, mu, last>>

(***************************************************************************)
(* Bounds of the model.                                                    *)
(***************************************************************************)
MaxHandlers == 4
MaxCalls == 1
MaxChain == 8
Window == 2
MaxLevelHandlers == 3
MaxWriters == 2
MaxWriteHandlers == 2
MaxLine == 2
MaxAttrHandlers == 3
MaxFork == 8
ForkWindow == 3
MaxChildren == 3
MaxNested == 2
MaxEvents == 2
MaxEventHandlers == 2

(***************************************************************************)
(* slog values and attributes, as far as the handler looks at them.        *)
(***************************************************************************)
NilValue == "<nil>"

LevelDebug == -4
LevelInfo == 0
LevelWarn == 4
LevelError == 8

Levels == {LevelDebug, LevelInfo, LevelWarn, LevelError}

\* slog.Any(k, v): a plain value; v = NilValue is slog.AnyValue(nil)
AnyAttr(k, v) == [Key |-> k, Kind |-> "any", Val |-> v, Group |-> <<>>]

\* an attribute holding a slog.LogValuer whose LogValue() resolves to v
LogValuer(k, v) == [Key |-> k, Kind |-> "logvaluer", Val |-> v, Group |-> <<>>]

\* slog.Group(k, as...)
Group(k, as) == [Key |-> k, Kind |-> "group", Val |-> NilValue, Group |-> as]

\* a.Value.Any() == nil: true of slog.AnyValue(nil) only (a LogValuer's Any()
\* is the LogValuer itself, a group's is its []Attr)
AnyIsNil(a) == a.Kind = "any" /\ a.Val = NilValue

\* a.Value.Resolve()
Resolve(a) == a.Val

(***************************************************************************)
(* The heap of Attr nodes (src/attr.go).                                   *)
(***************************************************************************)
NilPtr == 0

Node(k, v, ch) == [Key |-> k, Value |-> v, Children |-> ch]

\* the child put first
prependChild(h, parent, child) == [h EXCEPT ![parent].Children = <<child>> \o @]

\* parent.Children = append(parent.Children, child)
appendChild(h, parent, child) == [h EXCEPT ![parent].Children = Append(@, child)]

\* Attr.empty
empty(h, a) == h[a].Value = NilValue /\ Len(h[a].Children) = 0

RECURSIVE clone(_, _)
RECURSIVE cloneChildren(_, _)

\* the loop of Attr.clone over a.Children: [heap, ids]
cloneChildren(h, children) ==
    IF children = <<>> THEN [heap |-> h, ids |-> <<>>]
    ELSE LET c == clone(h, Head(children))
             rest == cloneChildren(c.heap, Tail(children))
         IN [heap |-> rest.heap, ids |-> <<c.id>> \o rest.ids]

\* a copy that shares the children of the original
cloneShallow(h, a) ==
    [heap |-> Append(h, Node(h[a].Key, h[a].Value, h[a].Children)),
     id |-> Len(h) + 1]

\* Attr.clone: [heap, id], id the root of the copy
clone(h, a) ==
    LET r == cloneChildren(h, h[a].Children)
    IN [heap |-> Append(r.heap, Node(h[a].Key, h[a].Value, r.ids)),
        id |-> Len(r.heap) + 1]

RECURSIVE TreeOf(_, _)
\* the tree below a node as a value (what a reader of the tree observes)
TreeOf(h, a) ==
    [Key |-> h[a].Key, Value |-> h[a].Value,
     Children |-> [i \in 1..Len(h[a].Children) |-> TreeOf(h, h[a].Children[i])]]

RECURSIVE Reach(_, _)
Reach(h, a) ==
    {a} \cup UNION {Reach(h, h[a].Children[i]) : i \in 1..Len(h[a].Children)}

SetMax(S) == IF S = {} THEN 0 ELSE CHOOSE x \in S : \A y \in S : y <= x

\* garbage collection: nodes allocated after the last node a handler reaches
Collect(h, hs) ==
    SubSeq(h, 1, SetMax(UNION {Reach(h, hs[i].root) : i \in 1..Len(hs)}))

(***************************************************************************)
(* parseValue (src/easyslog.go:192-224)                                    *)
(***************************************************************************)
RECURSIVE parseValue(_, _, _)
RECURSIVE parseGroup(_, _, _)
RECURSIVE parseGroupReversed(_, _, _)

\* the nested attributes taken last to first
parseGroupReversed(h, attrs, groupAttr) ==
    IF attrs = <<>> THEN h
    ELSE parseValue(parseGroupReversed(h, Tail(attrs), groupAttr), Head(attrs), groupAttr)

\* a parseValue that gives a group with an empty key a node of its own
parseValueNested(h, a, parent) ==
    IF a.Kind # "group" /\ AnyIsNil(a) THEN h
    ELSE IF a.Kind # "group"
    THEN appendChild(Append(h, Node(a.Key, Resolve(a), <<>>)), parent, Len(h) + 1)
    ELSE LET h2 == parseGroup(Append(h, Node(a.Key, NilValue, <<>>)), a.Group, Len(h) + 1)
         IN IF Len(h2[Len(h) + 1].Children) # 0
            THEN appendChild(h2, parent, Len(h) + 1)
            ELSE h2

\* for _, attr := range a.Value.Group() { parseValue(attr, groupAttr) }
parseGroup(h, attrs, groupAttr) ==
    IF attrs = <<>> THEN h
    ELSE parseGroup(parseValue(h, Head(attrs), groupAttr), Tail(attrs), groupAttr)

parseValue(h, a, parent) ==
    IF a.Kind # "group" /\ AnyIsNil(a) THEN h
    ELSE IF a.Kind # "group"
    THEN appendChild(Append(h, Node(a.Key, Resolve(a), <<>>)), parent, Len(h) + 1)
    ELSE LET isSubgroup == a.Key # ""
             h1 == IF isSubgroup THEN Append(h, Node(a.Key, NilValue, <<>>)) ELSE h
             groupAttr == IF isSubgroup THEN Len(h) + 1 ELSE parent
             h2 == parseGroup(h1, a.Group, groupAttr)
         IN IF isSubgroup /\ Len(h2[groupAttr].Children) # 0
            THEN appendChild(h2, parent, groupAttr)
            ELSE h2

(***************************************************************************)
(* prune (src/easyslog.go:226-235).  The range loop runs over the slice    *)
(* header taken at its start (backing, n) while slices.Delete shifts the   *)
(* elements of that same backing array and shortens a.Children.  clears    *)
(* tells whether slices.Delete zeroes the vacated tail (Go 1.22 and later) *)
(* or leaves the old pointer there (Go 1.21).                              *)
(***************************************************************************)
RECURSIVE prune(_, _, _)
RECURSIVE pruneLoop(_, _, _, _, _, _)

Panicked(h) == [heap |-> h, panic |-> TRUE]

pruneLoop(h, a, backing, n, i, clears) ==
    IF i >= n THEN [heap |-> h, panic |-> FALSE]
    ELSE LET child == backing[i + 1] IN
         IF child = NilPtr THEN Panicked(h)
         ELSE IF empty(h, child)
         THEN LET cur == Len(h[a].Children) IN
              IF i + 1 > cur THEN Panicked(h)
              ELSE LET shifted ==
                         [k \in 1..n |->
                            IF k <= i THEN backing[k]
                            ELSE IF k < cur THEN backing[k + 1]
                            ELSE IF k = cur /\ clears THEN NilPtr
                            ELSE backing[k]]
                       h1 == [h EXCEPT ![a].Children = SubSeq(shifted, 1, cur - 1)]
                   IN pruneLoop(h1, a, shifted, n, i + 1, clears)
         ELSE LET r == prune(h, child, clears) IN
              IF r.panic THEN r
              ELSE pruneLoop(r.heap, a, backing, n, i + 1, clears)

prune(h, a, clears) ==
    pruneLoop(h, a, h[a].Children, Len(h[a].Children), 0, clears)

(***************************************************************************)
(* groupIndices: a Go slice [arr, len] over arrays[arr]; arr = 0 is the    *)
(* empty slice []int{} of capacity 0.                                      *)
(***************************************************************************)
OutOfRange == -1

Cap(as, s) == IF s.arr = 0 THEN 0 ELSE Len(as[s.arr])

\* the elements a slice shows
Elems(as, s) == IF s.arr = 0 THEN <<>> ELSE SubSeq(as[s.arr], 1, s.len)

\* append(s, x): [arrays, slice]
AppendInt(as, s, x) ==
    IF s.len < Cap(as, s)
    THEN [arrays |-> [as EXCEPT ![s.arr][s.len + 1] = x],
          slice |-> [arr |-> s.arr, len |-> s.len + 1]]
    ELSE LET newcap == IF Cap(as, s) = 0 THEN 1 ELSE 2 * Cap(as, s)
             fresh == [k \in 1..newcap |->
                         IF k <= s.len THEN as[s.arr][k]
                         ELSE IF k = s.len + 1 THEN x ELSE 0]
         IN [arrays |-> Append(as, fresh),
             slice |-> [arr |-> Len(as) + 1, len |-> s.len + 1]]

RECURSIVE walk(_, _, _)
walk(h, group, path) ==
    IF path = <<>> THEN group
    ELSE IF Head(path) < 0 \/ Head(path) >= Len(h[group].Children) THEN OutOfRange
    ELSE walk(h, h[group].Children[Head(path) + 1], Tail(path))

\* the root, whatever groupIndices says
getCurrentGroupRoot(h, as, handler, root) == root

\* EasySlog.getCurrentGroup: the node, or OutOfRange when an index panics
getCurrentGroup(h, as, handler, root) == walk(h, root, Elems(as, handler.gi))

(***************************************************************************)
(* The handler (src/easyslog.go:65-149).  A handler is the record of the   *)
(* fields of an EasySlog; handlers[i] is the i-th handler constructed.     *)
(* The writer is the one sink; mu names the mutex the handler points to.   *)
(***************************************************************************)
NoOptions == [given |-> FALSE, Level |-> LevelInfo]

Options(level) == [given |-> TRUE, Level |-> level]

\* the level New falls back to when opts == nil
DefaultLevel == LevelInfo

\* New: the handler and its root node
New(o) ==
    [root |-> 1,
     gi |-> [arr |-> 0, len |-> 0],
     leveler |-> IF o.given THEN o.Level ELSE DefaultLevel,
     mu |-> 1]

\* a threshold that is itself disabled
EnabledAbove(handler, level) == level > handler.leveler

\* EasySlog.Enabled
Enabled(handler, level) == level >= handler.leveler

RECURSIVE withAttrsLoop(_, _, _, _, _)
\* the loop of WithAttrs over slogAttrs: [heap, panic]
withAttrsLoop(h, as, handler, root, slogAttrs) ==
    IF slogAttrs = <<>> THEN [heap |-> h, panic |-> FALSE]
    ELSE IF AnyIsNil(Head(slogAttrs))
    THEN withAttrsLoop(h, as, handler, root, Tail(slogAttrs))
    ELSE LET cg == getCurrentGroup(h, as, handler, root) IN
         IF cg = OutOfRange THEN Panicked(h)
         ELSE withAttrsLoop(parseValue(h, Head(slogAttrs), cg), as, handler, root,
                            Tail(slogAttrs))

\* the handler WithAttrs returns
WithAttrsResult(handler, root) ==
    [root |-> root, gi |-> handler.gi, leveler |-> handler.leveler, mu |-> handler.mu]

\* a WithGroup that takes every name
NeverElides(name) == FALSE

\* WithGroup returns the handler itself for the empty name
ElidesGroup(name) == name = ""

\* the handler WithGroup returns
WithGroupResult(handler, root, gi) ==
    [root |-> root, gi |-> gi, leveler |-> handler.leveler, mu |-> handler.mu]

\* a Handle that works on the handler's own tree
HandleRecordInPlace(h, as, handler, attrs, clears) ==
    LET currentGroup == getCurrentGroup(h, as, handler, handler.root)
    IN IF currentGroup = OutOfRange
       THEN [heap |-> h, panic |-> TRUE, Attrs |-> <<>>]
       ELSE LET h1 == parseGroup(h, attrs, currentGroup)
                p == prune(h1, handler.root, clears)
            IN IF p.panic THEN [heap |-> h, panic |-> TRUE, Attrs |-> <<>>]
               ELSE [heap |-> p.heap, panic |-> FALSE,
                     Attrs |-> TreeOf(p.heap, handler.root).Children]

\* the tree work of Handle, up to the Record: [heap, panic, Attrs]
HandleRecord(h, as, handler, attrs, clears) ==
    LET c == clone(h, handler.root)
        currentGroup == getCurrentGroup(c.heap, as, handler, c.id)
    IN IF currentGroup = OutOfRange
       THEN [heap |-> h, panic |-> TRUE, Attrs |-> <<>>]
       ELSE LET h1 == parseGroup(c.heap, attrs, currentGroup)
                p == prune(h1, c.id, clears)
            IN IF p.panic THEN [heap |-> h, panic |-> TRUE, Attrs |-> <<>>]
               ELSE [heap |-> p.heap, panic |-> FALSE,
                     Attrs |-> TreeOf(p.heap, c.id).Children]

(***************************************************************************)
(* Handle after the Record is built (src/easyslog.go:169-190).  A call is  *)
(* the record of one Handle call: its receiver h, the event's attributes,  *)
(* the Record's Attrs, the private buffer, the bytes of it the sink has    *)
(* taken, where the call stands and what it returned.                      *)
(***************************************************************************)
NL == 10

FormatError == -1

\* the bytes a Formatter leaves in its buffer: n > 0 bytes when it succeeds
\* with a line of n bytes, one byte when it fails after starting to write
Formatted(fmt) == IF fmt = FormatError THEN <<1>> ELSE [k \in 1..fmt |-> k]

Call(i, attrs, fmt, rec, buf, pc, err) ==
    [h |-> i, ev |-> attrs, fmt |-> fmt, Attrs |-> rec, buf |-> buf, written |-> 0,
     pc |-> pc, err |-> err]

\* a Handle that goes on to write whatever the Formatter returned
HandleCallIgnoringErr(i, attrs, r, fmt) ==
    IF r.panic THEN Call(i, attrs, fmt, <<>>, <<>>, "done", "panic")
    ELSE Call(i, attrs, fmt, r.Attrs, Append(Formatted(fmt), NL), "lock", "")

\* a Handle that writes the buffer as the Formatter left it
HandleCallNoNewline(i, attrs, r, fmt) ==
    IF r.panic THEN Call(i, attrs, fmt, <<>>, <<>>, "done", "panic")
    ELSE IF fmt = FormatError
    THEN Call(i, attrs, fmt, r.Attrs, Formatted(fmt), "done", "format")
    ELSE Call(i, attrs, fmt, r.Attrs, Formatted(fmt), "lock", "")

\* Handle from the Formatter's call to buf.WriteByte
HandleCall(i, attrs, r, fmt) ==
    IF r.panic THEN Call(i, attrs, fmt, <<>>, <<>>, "done", "panic")
    ELSE IF fmt = FormatError
    THEN Call(i, attrs, fmt, r.Attrs, Formatted(fmt), "done", "format")
    ELSE Call(i, attrs, fmt, r.Attrs, Append(Formatted(fmt), NL), "lock", "")

\* a lock that never waits
NoMutex(held, m) == TRUE

\* handler.mu.Lock() can return: nobody holds mutex m
MutexFree(held, m) == \A l \in held : l.m # m

(***************************************************************************)
(* What an observer sees of a handler: its tree and its insertion path.    *)
(***************************************************************************)
View(hs, h, as, i) ==
    [tree |-> TreeOf(h, hs[i].root), path |-> Elems(as, hs[i].gi)]

\* the history of handler i: the call that made it, and what it was then
Born(hs, h, as, i, parent, op, name, attrs) ==
    [parent |-> parent, op |-> op, name |-> name, attrs |-> attrs,
     tree |-> View(hs, h, as, i).tree, path |-> View(hs, h, as, i).path]

Last(op, recv, name, level, res, ok) ==
    [op |-> op, recv |-> recv, name |-> name, level |-> level, res |-> res, ok |-> ok]

(***************************************************************************)
(* Init: the state after New(w, formatter, o).                             *)
(***************************************************************************)
InitWith(optionsSet) ==
    \E o \in optionsSet :
       /\ opts = o
       /\ handlers = <<New(o)>>
       /\ heap = <<Node("", NilValue, <<>>)>>
       /\ arrays = <<>>
       /\ ghost = <<[parent |-> 0, op |-> "New", name |-> "", attrs |-> <<>>,
                      tree |-> Node("", NilValue, <<>>), path |-> <<>>]>>
       /\ calls = <<>>
       /\ sink = <<>>
       /\ mu = {}
       /\ last = Last("New", 0, "", 0, 1, TRUE)

(***************************************************************************)
(* Actions.                                                                *)
(***************************************************************************)
CallEnabled(i, level) ==
    /\ last' = Last("Enabled", i, "", level, i, Enabled(handlers[i], level))
    /\ UNCHANGED <<opts, handlers, ghost, heap, arrays, calls, sink, mu>>

CallWithAttrs(i, slogAttrs) ==
    LET c == clone(heap, handlers[i].root)
        r == withAttrsLoop(c.heap, arrays, handlers[i], c.id, slogAttrs)
        hs == Append(handlers, WithAttrsResult(handlers[i], c.id))
    IN IF r.panic
       THEN /\ last' = Last("WithAttrs", i, "", 0, 0, FALSE)
            /\ UNCHANGED <<opts, handlers, ghost, heap, arrays, calls, sink, mu>>
       ELSE /\ handlers' = hs
            /\ heap' = Collect(r.heap, hs)
            /\ ghost' = Append(ghost, Born(hs, r.heap, arrays, Len(hs), i, "WithAttrs", "", slogAttrs))
            /\ last' = Last("WithAttrs", i, "", 0, Len(hs), TRUE)
            /\ UNCHANGED <<opts, arrays, calls, sink, mu>>

CallWithGroup(i, name) ==
    IF ElidesGroup(name)
    THEN /\ last' = Last("WithGroup", i, name, 0, i, TRUE)
         /\ UNCHANGED <<opts, handlers, ghost, heap, arrays, calls, sink, mu>>
    ELSE LET c == clone(heap, handlers[i].root)
             currentGroup == getCurrentGroup(c.heap, arrays, handlers[i], c.id)
         IN IF currentGroup = OutOfRange
            THEN /\ last' = Last("WithGroup", i, name, 0, 0, FALSE)
                 /\ UNCHANGED <<opts, handlers, ghost, heap, arrays, calls, sink, mu>>
            ELSE LET h1 == appendChild(Append(c.heap, Node(name, NilValue, <<>>)),
                                       currentGroup, Len(c.heap) + 1)
                     ap == AppendInt(arrays, handlers[i].gi,
                                     Len(h1[currentGroup].Children) - 1)
                     hs == Append(handlers,
                                  WithGroupResult(handlers[i], c.id, ap.slice))
                 IN /\ handlers' = hs
                    /\ heap' = Collect(h1, hs)
                    /\ arrays' = ap.arrays
                    /\ ghost' = Append(ghost, Born(hs, h1, ap.arrays, Len(hs), i,
                                                    "WithGroup", name, <<>>))
                    /\ last' = Last("WithGroup", i, name, 0, Len(hs), TRUE)
                    /\ UNCHANGED <<opts, calls, sink, mu>>

\* Handle up to the lock: the Record is built and formatted
HandleBegin(i, attrs, fmt, clears) ==
    LET r == HandleRecord(heap, arrays, handlers[i], attrs, clears)
    IN /\ calls' = Append(calls, HandleCall(i, attrs, r, fmt))
       /\ heap' = Collect(r.heap, handlers)
       /\ UNCHANGED <<opts, handlers, ghost, arrays, sink, mu, last>>

\* handler.mu.Lock()
HandleLock(c) ==
    /\ calls[c].pc = "lock"
    /\ MutexFree(mu, handlers[calls[c].h].mu)
    /\ mu' = mu \cup {[m |-> handlers[calls[c].h].mu, c |-> c]}
    /\ calls' = [calls EXCEPT ![c].pc = "write"]
    /\ UNCHANGED <<opts, handlers, ghost, heap, arrays, sink, last>>

\* io.Copy: the sink takes the next byte of the buffer
HandleWrite(c) ==
    /\ calls[c].pc = "write"
    /\ calls[c].written < Len(calls[c].buf)
    /\ sink' = Append(sink, [c |-> c, b |-> calls[c].buf[calls[c].written + 1]])
    /\ calls' = [calls EXCEPT ![c].written = @ + 1]
    /\ UNCHANGED <<opts, handlers, ghost, heap, arrays, mu, last>>

\* a failed write that returns with the mutex still locked
HandleWriteFailLocked(c) ==
    /\ calls[c].pc = "write"
    /\ calls[c].written < Len(calls[c].buf)
    /\ calls' = [calls EXCEPT ![c].pc = "done", ![c].err = "write"]
    /\ UNCHANGED <<opts, handlers, ghost, heap, arrays, sink, mu, last>>

\* io.Copy: the sink fails; Handle returns its error, the deferred Unlock runs
HandleWriteFail(c) ==
    /\ calls[c].pc = "write"
    /\ calls[c].written < Len(calls[c].buf)
    /\ calls' = [calls EXCEPT ![c].pc = "done", ![c].err = "write"]
    /\ mu' = mu \ {[m |-> handlers[calls[c].h].mu, c |-> c]}
    /\ UNCHANGED <<opts, handlers, ghost, heap, arrays, sink, last>>

\* io.Copy is through; Handle returns nil, the deferred Unlock runs
HandleReturn(c) ==
    /\ calls[c].pc = "write"
    /\ calls[c].written = Len(calls[c].buf)
    /\ calls' = [calls EXCEPT ![c].pc = "done", ![c].err = "nil"]
    /\ mu' = mu \ {[m |-> handlers[calls[c].h].mu, c |-> c]}
    /\ UNCHANGED <<opts, handlers, ghost, heap, arrays, sink, last>>

(***************************************************************************)
(* Inputs.                                                                 *)
(***************************************************************************)
Names == {"", "a", "b"}

AttrLists ==
    {<<AnyAttr("p", "1"), AnyAttr("q", "2")>>,
     <<AnyAttr("n", NilValue)>>,
     <<LogValuer("l", NilValue)>>}

EventAttrs == {<<>>, <<AnyAttr("r", "3")>>}

Hs == 1..Len(handlers)

Cs == 1..Len(calls)

\* the handlers a chain step may be called on: the Window most recent ones
Recent == {i \in Hs : i > Len(handlers) - Window}

(***************************************************************************)
(* Spec: derivations over the full inputs, one Handle call at a time.      *)
(***************************************************************************)
Init == InitWith({NoOptions})

DoWithAttrs ==
    /\ Len(handlers) < MaxHandlers
    /\ \E i \in Hs, as \in AttrLists : CallWithAttrs(i, as)

DoWithGroup ==
    /\ Len(handlers) < MaxHandlers
    /\ \E i \in Hs, name \in Names : CallWithGroup(i, name)

DoHandle ==
    /\ Len(calls) < MaxCalls
    /\ \E i \in Hs, as \in EventAttrs, fmt \in {FormatError, 1}, clears \in BOOLEAN :
          HandleBegin(i, as, fmt, clears)

DoLock == \E c \in Cs : HandleLock(c)

DoWrite == \E c \in Cs : HandleWrite(c)

DoWriteFail == \E c \in Cs : HandleWriteFail(c)

DoReturn == \E c \in Cs : HandleReturn(c)

Next ==
    \/ DoWithAttrs
    \/ DoWithGroup
    \/ DoHandle
    \/ DoLock
    \/ DoWrite
    \/ DoWriteFail
    \/ DoReturn

Spec == Init /\ [][Next]_vars

(***************************************************************************)
(* SpecChain: long chains of derivations from few inputs, each step called *)
(* on one of the most recent handlers, so that groupIndices outgrows its   *)
(* first backing arrays.  The Formatter of its Handle calls fails, so that *)
(* a call is over once its Record is built.                                *)
(***************************************************************************)
ChainWithAttrs ==
    /\ Len(handlers) < MaxChain
    /\ \E i \in Recent : CallWithAttrs(i, <<AnyAttr("x", "1")>>)

ChainWithGroup ==
    /\ Len(handlers) < MaxChain
    /\ \E i \in Recent : CallWithGroup(i, "g")

ChainHandle ==
    /\ Len(calls) < MaxCalls
    /\ \E i \in Recent, clears \in BOOLEAN : HandleBegin(i, <<>>, FormatError, clears)

NextChain ==
    \/ ChainWithAttrs
    \/ ChainWithGroup
    \/ ChainHandle

SpecChain == Init /\ [][NextChain]_vars

(***************************************************************************)
(* SpecFork: chains of derivations that fork further back than those of    *)
(* SpecChain: each call is on one of the ForkWindow most recent handlers.  *)
(* It has no Handle calls.                                                 *)
(***************************************************************************)
RecentFork == {i \in Hs : i > Len(handlers) - ForkWindow}

ForkWithAttrs ==
    /\ Len(handlers) < MaxFork
    /\ \E i \in RecentFork : CallWithAttrs(i, <<AnyAttr("x", "1")>>)

ForkWithGroup ==
    /\ Len(handlers) < MaxFork
    /\ \E i \in RecentFork : CallWithGroup(i, "g")

NextFork ==
    \/ ForkWithAttrs
    \/ ForkWithGroup

SpecFork == Init /\ [][NextFork]_vars

(***************************************************************************)
(* SpecLevel: every configuration of New, and Enabled on the handlers      *)
(* derived from it.                                                        *)
(***************************************************************************)
InitLevel == InitWith({NoOptions} \cup {Options(l) : l \in Levels})

LevelEnabled == \E i \in Hs, level \in Levels : CallEnabled(i, level)

LevelWithAttrs ==
    /\ Len(handlers) < MaxLevelHandlers
    /\ \E i \in Hs : CallWithAttrs(i, <<AnyAttr("x", "1")>>)

LevelWithGroup ==
    /\ Len(handlers) < MaxLevelHandlers
    /\ \E i \in Hs : CallWithGroup(i, "g")

NextLevel ==
    \/ LevelEnabled
    \/ LevelWithAttrs
    \/ LevelWithGroup

SpecLevel == InitLevel /\ [][NextLevel]_vars

(***************************************************************************)
(* SpecWrite: concurrent Handle calls on a handler and handlers derived    *)
(* from it, with every outcome of the Formatter and of the sink.           *)
(***************************************************************************)
WriteWithAttrs ==
    /\ Len(handlers) < MaxWriteHandlers
    /\ \E i \in Hs : CallWithAttrs(i, <<AnyAttr("x", "1")>>)

WriteWithGroup ==
    /\ Len(handlers) < MaxWriteHandlers
    /\ \E i \in Hs : CallWithGroup(i, "g")

WriteHandle ==
    /\ Len(calls) < MaxWriters
    /\ \E i \in Hs, fmt \in {FormatError} \cup (1..MaxLine) :
          HandleBegin(i, <<>>, fmt, FALSE)

NextWrite ==
    \/ WriteWithAttrs
    \/ WriteWithGroup
    \/ WriteHandle
    \/ DoLock
    \/ DoWrite
    \/ DoWriteFail
    \/ DoReturn

SpecWrite == Init /\ [][NextWrite]_vars

\* SpecWrite with its scheduling: a goroutine blocked in mu.Lock gets the
\* mutex once it stays free (sync.Mutex hands it over to a waiter), and a
\* goroutine that holds it runs on: io.Copy writes or fails, Handle returns.
FairWrite ==
    \A c \in 1..MaxWriters :
       /\ WF_vars(c \in Cs /\ HandleLock(c))
       /\ WF_vars(c \in Cs /\ (HandleWrite(c) \/ HandleWriteFail(c) \/ HandleReturn(c)))

SpecWriteFair == SpecWrite /\ FairWrite

(***************************************************************************)
(* SpecAttrs: attributes of every shape (nil, lazily nil, named and        *)
(* anonymous groups, nested groups) attached by WithAttrs and by the       *)
(* events of Handle, at the root and inside a group.  The Formatter of its *)
(* Handle calls fails, so that a call is over once its Record is built.    *)
(***************************************************************************)
SlogAttrs ==
    {<<AnyAttr("n", NilValue)>>,
     <<LogValuer("l", NilValue)>>,
     <<AnyAttr("a", "1"), AnyAttr("b", "2")>>,
     <<Group("", <<AnyAttr("a", "1"), AnyAttr("b", "2")>>)>>,
     <<Group("", <<Group("k", <<AnyAttr("c", "3")>>), AnyAttr("n", NilValue),
                   AnyAttr("b", "2")>>)>>,
     <<Group("request", <<AnyAttr("method", "get"), AnyAttr("path", "/")>>)>>,
     <<Group("request", <<AnyAttr("method", "get"), AnyAttr("n", NilValue),
                          AnyAttr("path", "/")>>)>>,
     <<Group("e", <<AnyAttr("n", NilValue)>>)>>,
     <<Group("e", <<Group("k", <<AnyAttr("n", NilValue)>>), AnyAttr("m", NilValue)>>)>>,
     <<Group("e", <<LogValuer("l", NilValue)>>)>>}

AttrsWithAttrs ==
    /\ Len(handlers) < MaxAttrHandlers
    /\ \E i \in Hs, as \in SlogAttrs : CallWithAttrs(i, as)

AttrsWithGroup ==
    /\ Len(handlers) < MaxAttrHandlers
    /\ \E i \in Hs : CallWithGroup(i, "g")

AttrsHandle ==
    /\ Len(calls) < MaxCalls
    /\ \E i \in Hs, as \in SlogAttrs, clears \in BOOLEAN :
          HandleBegin(i, as, FormatError, clears)

NextAttrs ==
    \/ AttrsWithAttrs
    \/ AttrsWithGroup
    \/ AttrsHandle

SpecAttrs == Init /\ [][NextAttrs]_vars

(***************************************************************************)
(* SpecEvents: concurrent Handle calls with events of different attributes *)
(* on the same handler and on handlers derived from it.                    *)
(***************************************************************************)
Events == {<<>>, <<AnyAttr("r", "3")>>, <<AnyAttr("s", "4")>>}

EventsWithAttrs ==
    /\ Len(handlers) < MaxEventHandlers
    /\ \E i \in Hs : CallWithAttrs(i, <<AnyAttr("x", "1")>>)

EventsWithGroup ==
    /\ Len(handlers) < MaxEventHandlers
    /\ \E i \in Hs : CallWithGroup(i, "g")

EventsHandle ==
    /\ Len(calls) < MaxEvents
    /\ \E i \in Hs, ev \in Events, clears \in BOOLEAN : HandleBegin(i, ev, 1, clears)

NextEvents ==
    \/ EventsWithAttrs
    \/ EventsWithGroup
    \/ EventsHandle
    \/ DoLock
    \/ DoWrite
    \/ DoWriteFail
    \/ DoReturn

SpecEvents == Init /\ [][NextEvents]_vars

(***************************************************************************)
(* SpecPrune: prune applied to the root of any attribute tree, reachable   *)
(* through a handler or not: up to MaxChildren children, each a leaf, an   *)
(* empty node or a group of up to MaxNested leaves and empty nodes.  Every *)
(* leaf has a value of its own, so that the order of the leaves shows.     *)
(***************************************************************************)
LeafValues == <<"1", "2", "3", "4">>

NestedValues == <<<<"11", "12", "13">>, <<"21", "22", "23">>, <<"31", "32", "33">>,
                  <<"41", "42", "43">>>>

\* the nodes a child of the i-th group can be
NestedAt(i, j) == {Node("k", NestedValues[i][j], <<>>), Node("e", NilValue, <<>>)}

\* the nodes the i-th child of the root can be
ChildAt(i) ==
    {Node("k", LeafValues[i], <<>>), Node("e", NilValue, <<>>)}
       \cup {Node("g", NilValue, ch) :
                ch \in UNION {{f \in [1..n -> UNION {NestedAt(i, j) : j \in 1..n}] :
                                 \A j \in 1..n : f[j] \in NestedAt(i, j)} :
                               n \in 1..MaxNested}}

Trees ==
    {Node("", NilValue, ch) :
       ch \in UNION {{f \in [1..n -> UNION {ChildAt(i) : i \in 1..n}] :
                        \A i \in 1..n : f[i] \in ChildAt(i)} :
                      n \in 0..MaxChildren}}

RECURSIVE Plant(_, _)
RECURSIVE PlantChildren(_, _)

PlantChildren(h, children) ==
    IF children = <<>> THEN [heap |-> h, ids |-> <<>>]
    ELSE LET c == Plant(h, Head(children))
             rest == PlantChildren(c.heap, Tail(children))
         IN [heap |-> rest.heap, ids |-> <<c.id>> \o rest.ids]

\* the tree as nodes of the heap: [heap, id], id its root
Plant(h, tree) ==
    LET r == PlantChildren(h, tree.Children)
    IN [heap |-> Append(r.heap, Node(tree.Key, tree.Value, r.ids)),
        id |-> Len(r.heap) + 1]

InitPrune ==
    \E tree \in Trees :
       /\ opts = NoOptions
       /\ heap = Plant(<<>>, tree).heap
       /\ handlers = <<[New(NoOptions) EXCEPT !.root = Plant(<<>>, tree).id]>>
       /\ arrays = <<>>
       /\ ghost = <<[parent |-> 0, op |-> "New", name |-> "", attrs |-> <<>>,
                      tree |-> tree, path |-> <<>>]>>
       /\ calls = <<>>
       /\ sink = <<>>
       /\ mu = {}
       /\ last = Last("New", 0, "", 0, 1, TRUE)

\* prune(root)
CallPrune(clears) ==
    LET r == prune(heap, handlers[1].root, clears)
    IN /\ last.op = "New"
       /\ heap' = r.heap
       /\ last' = Last("prune", 1, "", 0, 1, ~r.panic)
       /\ UNCHANGED <<opts, handlers, ghost, arrays, calls, sink, mu>>

NextPrune == \E clears \in BOOLEAN : CallPrune(clears)

SpecPrune == InitPrune /\ [][NextPrune]_vars

(***************************************************************************)
(* Properties.                                                             *)
(***************************************************************************)
RECURSIVE IsAncestorOrSelf(_, _)
\* handler s is handler d, or one d was derived from
IsAncestorOrSelf(s, d) ==
    IF d = 0 THEN FALSE
    ELSE IF s = d THEN TRUE
    ELSE IsAncestorOrSelf(s, ghost[d].parent)

RECURSIVE NoEmptyNode(_)
\* no node of the list, at any depth, has a nil value and no children
NoEmptyNode(nodes) ==
    \A k \in 1..Len(nodes) :
       /\ ~(nodes[k].Value = NilValue /\ Len(nodes[k].Children) = 0)
       /\ NoEmptyNode(nodes[k].Children)

\* C1 (sibling isolation): no handler state is mutated after it is
\* constructed: every handler's tree and insertion path are, in every state,
\* what they were when the handler was returned, whatever has been derived
\* from or called on other handlers since.
C1_NeverMutated ==
    \A i \in Hs :
       /\ TreeOf(heap, handlers[i].root) = ghost[i].tree
       /\ Elems(arrays, handlers[i].gi) = ghost[i].path

RECURSIVE History(_)
\* the calls that made handler i, from the root's first derivation on
History(i) ==
    IF ghost[i].parent = 0 THEN <<>> ELSE Append(History(ghost[i].parent), ghost[i])

\* handler i was made by WithGroup calls alone
OnlyGroups(i) ==
    /\ History(i) # <<>>
    /\ \A k \in 1..Len(History(i)) : History(i)[k].op = "WithGroup"

\* handler i was made by WithAttrs calls alone
OnlyAttrs(i) ==
    /\ History(i) # <<>>
    /\ \A k \in 1..Len(History(i)) : History(i)[k].op = "WithAttrs"

\* every attribute of the list is a plain non-nil value
AllPlain(attrs) ==
    \A k \in 1..Len(attrs) : attrs[k].Kind = "any" /\ attrs[k].Val # NilValue

\* the leaves a list of plain attributes stands for
Leaves(attrs) == [k \in 1..Len(attrs) |-> Node(attrs[k].Key, attrs[k].Val, <<>>)]

RECURSIVE Nest(_, _)
\* group names[1] -> ... -> group names[n] -> kids
Nest(names, kids) ==
    IF names = <<>> THEN kids
    ELSE <<Node(Head(names), NilValue, Nest(Tail(names), kids))>>

RECURSIVE AllLeaves(_)
\* the leaves of a history of WithAttrs calls, in the order of the calls
AllLeaves(hist) ==
    IF hist = <<>> THEN <<>>
    ELSE Leaves(Head(hist).attrs) \o AllLeaves(Tail(hist))

\* the handler a step was called on (0: none): the receiver of the derivation
\* or of the Handle call the step belongs to
StepRecv ==
    IF Len(handlers') > Len(handlers) THEN ghost'[Len(handlers')].parent
    ELSE IF Len(calls') > Len(calls) THEN calls'[Len(calls')].h
    ELSE IF \E c \in Cs : calls'[c] # calls[c]
    THEN calls[CHOOSE c \in Cs : calls'[c] # calls[c]].h
    ELSE 0

\* all there is to observe of handler i: tree, insertion path, Enabled, and the
\* outcome of Handle for every event
Observed(hs, h, as, i) ==
    [tree |-> TreeOf(h, hs[i].root),
     path |-> Elems(as, hs[i].gi),
     enabled |-> [l \in Levels |-> Enabled(hs[i], l)],
     record |-> [ev \in EventAttrs |->
                   LET r == HandleRecord(h, as, hs[i], ev, TRUE)
                   IN [panic |-> r.panic, Attrs |-> r.Attrs]]]

\* C2 (parent isolation): a step that derives a handler from S or from a
\* handler derived from S, or that belongs to a Handle call on such a handler,
\* leaves S's tree, insertion path, Enabled results and Handle records as they
\* were.
C2_ParentIsolation ==
    [][\A s \in Hs :
          (StepRecv # 0 /\ IsAncestorOrSelf(s, StepRecv)) =>
             Observed(handlers', heap', arrays', s) = Observed(handlers, heap, arrays, s)]_vars

\* C2 happens: a handler shares the backing array of its groupIndices with a
\* handler derived from it that has appended to it, and Handle has been called
\* on the derived handler.
C2_Witness ==
    \E s \in Hs, d \in Hs, c \in Cs :
       /\ s # d
       /\ IsAncestorOrSelf(s, d)
       /\ handlers[s].gi.arr # 0
       /\ handlers[s].gi.arr = handlers[d].gi.arr
       /\ handlers[s].gi.len < handlers[d].gi.len
       /\ Len(ghost[s].tree.Children) > 0
       /\ calls[c].h = d

\* C3: the Record a Handle call passes to the Formatter holds no empty node
\* at any depth; stated for the case the claim names, a handler made by a
\* chain of WithGroup calls, whose groups received no attributes.
C3_RecordHasNoEmptyNode ==
    \A c \in Cs :
       (calls[c].err # "panic" /\ OnlyGroups(calls[c].h)) => NoEmptyNode(calls[c].Attrs)

\* the bytes of call c in the sink, in the sink's order
BytesOf(c) ==
    LET own == SelectSeq(sink, LAMBDA e : e.c = c)
    IN [k \in 1..Len(own) |-> own[k].b]

\* the places of the sink that hold bytes of call c
PlacesOf(c) == {k \in 1..Len(sink) : sink[k].c = c}

\* C4 (write serialization): at most one Handle call is writing to the sink
\* at any time; the bytes of each call lie in the sink as one contiguous run,
\* in the buffer's order; and a call that returned nil has its whole line
\* there.
C4_WritesSerialized ==
    /\ Cardinality({c \in Cs : calls[c].pc = "write"}) <= 1
    /\ \A c \in Cs :
          /\ \A j \in PlacesOf(c), k \in PlacesOf(c) :
                \A x \in j..k : x \in PlacesOf(c)
          /\ BytesOf(c) = SubSeq(calls[c].buf, 1, calls[c].written)
          /\ calls[c].err = "nil" => BytesOf(c) = calls[c].buf

\* C4 happens: a Handle call is in the middle of writing its line while a
\* Handle call on another handler of the lineage waits for the mutex with its
\* own line ready.
C4_Witness ==
    \E c \in Cs, d \in Cs :
       /\ calls[c].h # calls[d].h
       /\ calls[c].pc = "write"
       /\ calls[c].written >= 1
       /\ calls[c].written < Len(calls[c].buf)
       /\ calls[d].pc = "lock"
       /\ Len(calls[d].buf) > 1

\* C5: a Handle call whose Formatter failed returns the Formatter's error and
\* no byte of it, neither of the buffer nor a newline, is in the sink.
C5_FormatErrorWritesNothing ==
    \A c \in Cs :
       (calls[c].fmt = FormatError /\ calls[c].err # "panic") =>
          /\ calls[c].pc = "done"
          /\ calls[c].err = "format"
          /\ PlacesOf(c) = {}

\* C5 happens: the Formatter of one call failed after writing to its buffer
\* while another call's line went to the sink.
C5_Witness ==
    \E c \in Cs, d \in Cs :
       /\ calls[c].fmt = FormatError
       /\ calls[c].err = "format"
       /\ Len(calls[c].buf) > 0
       /\ calls[d].err = "nil"
       /\ c < d

C6_Witness ==
    \E c \in Cs :
       LET hist == History(calls[c].h)
       IN /\ Len(hist) = 3
          /\ hist[1].op = "WithGroup"
          /\ hist[2].op = "WithGroup"
          /\ hist[1].name # hist[2].name
          /\ hist[3].op = "WithAttrs"
          /\ AllPlain(hist[3].attrs)
          /\ calls[c].ev # <<>>
          /\ calls[c].err # "panic"

\* C7 (order): Handle on a handler made by successive WithAttrs calls of plain
\* non-nil attributes does not panic and the Record's top-level attributes are
\* those attributes in the order attached, followed by the event's own.
C7_OrderPreserved ==
    \A c \in Cs :
       LET hist == History(calls[c].h)
       IN (/\ OnlyAttrs(calls[c].h)
           /\ \A k \in 1..Len(hist) : AllPlain(hist[k].attrs))
          => /\ calls[c].err # "panic"
             /\ calls[c].Attrs = AllLeaves(hist) \o Leaves(calls[c].ev)

\* C7 happens: Handle of an event with an attribute on a handler made by two
\* WithAttrs calls.
C7_Witness ==
    \E c \in Cs :
       /\ OnlyAttrs(calls[c].h)
       /\ Len(History(calls[c].h)) >= 2
       /\ \A k \in 1..Len(History(calls[c].h)) : AllPlain(History(calls[c].h)[k].attrs)
       /\ calls[c].ev # <<>>
       /\ Len(calls[c].Attrs) >= 5

\* C8: on a handler made by New with nil options, Enabled returns true for
\* every level.
C8_NilOptionsEnableAll ==
    (~opts.given /\ last.op = "Enabled") => last.ok

\* C9 (severity gating): on a handler made with threshold T, and on every
\* handler derived from it, Enabled(level) is false for every level below T
\* and true for every other level, and the call changes nothing.
C9_SeverityGating ==
    [][(last'.op = "Enabled" /\ opts.given) =>
          /\ last'.ok = (last'.level >= opts.Level)
          /\ \A j \in Hs : Enabled(handlers[j], last'.level) = last'.ok
          /\ UNCHANGED <<handlers, heap, arrays, calls, sink, mu>>]_vars

\* C9 happens: Enabled was called on a derived handler with a level below and
\* a threshold above Info, and returned false.
C9_Witness ==
    /\ last.op = "Enabled"
    /\ opts.given
    /\ opts.Level > LevelInfo
    /\ last.recv > 1
    /\ last.level < opts.Level
    /\ ~last.ok

\* C10 (empty group name): WithGroup("") returns the handler it was called on
\* and changes no handler, tree or groupIndices.
C10_EmptyGroupNameNoOp ==
    [][(last'.op = "WithGroup" /\ last'.name = "" /\ last' # last) =>
          /\ last'.res = last'.recv
          /\ UNCHANGED <<handlers, heap, arrays>>]_vars

\* C10 happens: WithGroup("") was called on a handler that has attributes and
\* an open group.
C10_Witness ==
    /\ last.op = "WithGroup"
    /\ last.name = ""
    /\ last.res = last.recv
    /\ handlers[last.recv].gi.len > 0
    /\ Len(heap[handlers[last.recv].root].Children) > 1

\* every attribute of the list is a non-group whose resolved value is nil
AllResolveNil(attrs) ==
    /\ attrs # <<>>
    /\ \A k \in 1..Len(attrs) : attrs[k].Kind # "group" /\ Resolve(attrs[k]) = NilValue

\* the Records Handle on handler i can pass to the Formatter for an event with
\* the attributes ev
RecordsOf(i, ev) ==
    {r.Attrs : r \in {x \in {HandleRecord(heap, arrays, handlers[i], ev, cl) :
                                 cl \in BOOLEAN} : ~x.panic}}

\* C11 (nil elision): attaching non-group attributes whose resolved value is
\* nil changes nothing: the tree of the handler WithAttrs returns is the tree
\* of the handler it was called on, and the Record of an event with such
\* attributes is a Record of the same handler for an event without attributes.
C11_NilElision ==
    /\ \A i \in Hs :
          (ghost[i].op = "WithAttrs" /\ AllResolveNil(ghost[i].attrs)) =>
             ghost[i].tree = ghost[ghost[i].parent].tree
    /\ \A c \in Cs :
          (calls[c].err # "panic" /\ AllResolveNil(calls[c].ev)) =>
             calls[c].Attrs \in RecordsOf(calls[c].h, <<>>)

RECURSIVE NilValued(_)
\* the attribute carries nothing: its resolved value is nil or, for a group,
\* every nested attribute at every depth carries nothing
NilValued(a) ==
    IF a.Kind = "group" THEN \A k \in 1..Len(a.Group) : NilValued(a.Group[k])
    ELSE Resolve(a) = NilValue

\* the list is one named group whose nested attributes are all nil-valued
EmptyGroup(attrs) ==
    /\ Len(attrs) = 1
    /\ attrs[1].Kind = "group"
    /\ attrs[1].Key # ""
    /\ NilValued(attrs[1])

\* C12 (empty-group elision): attaching a named group whose nested attributes
\* are all nil-valued, at any depth, adds nothing: the tree of the handler
\* WithAttrs returns is the tree of the handler it was called on, and the
\* Record of an event with such a group is a Record of the same handler for an
\* event without attributes, with no node for the group.
C12_EmptyGroupElided ==
    /\ \A i \in Hs :
          (ghost[i].op = "WithAttrs" /\ EmptyGroup(ghost[i].attrs)) =>
             ghost[i].tree = ghost[ghost[i].parent].tree
    /\ \A c \in Cs :
          (calls[c].err # "panic" /\ EmptyGroup(calls[c].ev)) =>
             calls[c].Attrs \in RecordsOf(calls[c].h, <<>>)

\* the list is one group with an empty key
Anonymous(attrs) ==
    /\ Len(attrs) = 1
    /\ attrs[1].Kind = "group"
    /\ attrs[1].Key = ""

\* the tree of the handler that WithAttrs(attrs) on handler p returns
AttachedTree(p, attrs) ==
    LET c == clone(heap, handlers[p].root)
        r == withAttrsLoop(c.heap, arrays, handlers[p], c.id, attrs)
    IN TreeOf(r.heap, c.id)

\* C13 (anonymous-group flattening): attaching a group with an empty key and
\* nested attributes c1..cn gives what attaching c1, ..., cn themselves, in
\* that order, gives: the same handler tree through WithAttrs and the same
\* Record through the event of a Handle call.
C13_AnonymousFlattened ==
    /\ \A i \in Hs :
          (ghost[i].op = "WithAttrs" /\ Anonymous(ghost[i].attrs)) =>
             ghost[i].tree = AttachedTree(ghost[i].parent, ghost[i].attrs[1].Group)
    /\ \A c \in Cs :
          (calls[c].err # "panic" /\ Anonymous(calls[c].ev)) =>
             calls[c].Attrs \in RecordsOf(calls[c].h, calls[c].ev[1].Group)

\* C13 happens: inside a group, WithAttrs attached an anonymous group holding
\* a named group, a nil value and a plain value, and Handle was called on the
\* result with an event that carries an anonymous group.
C13_Witness ==
    \E i \in Hs, c \in Cs :
       /\ ghost[i].op = "WithAttrs"
       /\ Anonymous(ghost[i].attrs)
       /\ Len(ghost[i].attrs[1].Group) = 3
       /\ Len(ghost[i].path) > 0
       /\ ghost[i].tree # ghost[ghost[i].parent].tree
       /\ calls[c].h = i
       /\ Anonymous(calls[c].ev)
       /\ calls[c].err # "panic"
       /\ Len(calls[c].Attrs) > 0

RECURSIVE formatAttr(_, _)
RECURSIVE formatAttrs(_, _)

\* the loop of the pretty Formatter over a list of nodes
formatAttrs(nodes, parentKeys) ==
    IF nodes = <<>> THEN <<>>
    ELSE formatAttr(Head(nodes), parentKeys) \o formatAttrs(Tail(nodes), parentKeys)

\* Formatter.formatAttr of the pretty Formatter: what it renders for a node,
\* one [keys, value] per key=value it writes, keys the segments it joins by "."
formatAttr(attr, parentKeys) ==
    IF Len(attr.Children) > 0
    THEN formatAttrs(attr.Children, Append(parentKeys, attr.Key))
    ELSE <<[keys |-> Append(parentKeys, attr.Key), value |-> attr.Value]>>

RECURSIVE InsertAt(_, _, _)
\* the tree with the node appended to the children of the node at the path
InsertAt(tree, path, node) ==
    IF path = <<>> THEN [tree EXCEPT !.Children = Append(@, node)]
    ELSE [tree EXCEPT !.Children[Head(path) + 1] = InsertAt(@, Tail(path), node)]

RECURSIVE KeysAt(_, _)
\* the keys of the groups along the path
KeysAt(tree, path) ==
    IF path = <<>> THEN <<>>
    ELSE <<tree.Children[Head(path) + 1].Key>>
            \o KeysAt(tree.Children[Head(path) + 1], Tail(path))

\* the list is one named group of plain values, one of them at least not nil
NamedGroup(attrs) ==
    /\ Len(attrs) = 1
    /\ attrs[1].Kind = "group"
    /\ attrs[1].Key # ""
    /\ \A k \in 1..Len(attrs[1].Group) : attrs[1].Group[k].Kind = "any"
    /\ \E k \in 1..Len(attrs[1].Group) : attrs[1].Group[k].Val # NilValue

\* the nested attributes of the group that are not nil, in their order
NonNil(attrs) == SelectSeq(attrs[1].Group, LAMBDA a : a.Val # NilValue)

\* the Record of handler i and the event's group, when nothing is there to
\* prune: the handler's tree with the group's node added at the insertion point
WithGroupNode(i, attrs) ==
    InsertAt(ghost[i].tree, ghost[i].path,
             Node(attrs[1].Key, NilValue, Leaves(NonNil(attrs)))).Children

\* C14: a named group an event supplies is, in the Record, one group node with
\* its key at the handler's insertion point, holding the nested attributes
\* that are not nil as children in their order; the pretty Formatter renders
\* them last, each with the key path of the insertion point, the group's key
\* and its own.  Stated for the handlers whose tree leaves prune nothing to
\* remove.
C14_EventGroupNode ==
    \A c \in Cs :
       (/\ calls[c].err # "panic"
        /\ NamedGroup(calls[c].ev)
        /\ NoEmptyNode(WithGroupNode(calls[c].h, calls[c].ev)))
       => /\ calls[c].Attrs = WithGroupNode(calls[c].h, calls[c].ev)
          /\ LET out == formatAttrs(calls[c].Attrs, <<>>)
                 kids == NonNil(calls[c].ev)
                 at == KeysAt(ghost[calls[c].h].tree, ghost[calls[c].h].path)
             IN /\ Len(out) >= Len(kids)
                /\ \A k \in 1..Len(kids) :
                      out[Len(out) - Len(kids) + k] =
                         [keys |-> at \o <<calls[c].ev[1].Key, kids[k].Key>>,
                          value |-> kids[k].Val]

\* C14 happens: Handle of an event with the group request of method, a nil
\* value and path, on a handler that has attributes and an open group.
C14_Witness ==
    \E c \in Cs :
       /\ calls[c].err # "panic"
       /\ NamedGroup(calls[c].ev)
       /\ Len(calls[c].ev[1].Group) = 3
       /\ Len(ghost[calls[c].h].path) > 0
       /\ Len(ghost[calls[c].h].tree.Children) > 1
       /\ NoEmptyNode(WithGroupNode(calls[c].h, calls[c].ev))
       /\ Len(formatAttrs(calls[c].Attrs, <<>>)) >= 4

\* the bytes of the sink
SinkBytes == [k \in 1..Len(sink) |-> sink[k].b]

\* the line of call c: what its Formatter wrote, and one newline
LineOf(c) == Formatted(calls[c].fmt) \o <<NL>>

RECURSIVE Lines(_)
\* the lines of a sequence of calls, one after the other
Lines(cs) == IF cs = <<>> THEN <<>> ELSE LineOf(Head(cs)) \o Lines(Tail(cs))

\* the orders in which the calls of a set can have written
OrdersOf(S) ==
    {f \in [1..Cardinality(S) -> S] : \A j, k \in 1..Cardinality(S) : f[j] = f[k] => j = k}

\* C15: a Handle call whose Formatter succeeded and that returned nil has put
\* into the sink exactly the bytes its Formatter wrote followed by one newline
\* byte, and when no write is under way or has failed the sink is the
\* concatenation of one such line per successful call, and nothing else.
C15_LinePerCall ==
    /\ \A c \in Cs :
          (calls[c].fmt # FormatError /\ calls[c].err = "nil") =>
             /\ BytesOf(c) = LineOf(c)
             /\ Cardinality({k \in PlacesOf(c) : sink[k].b = NL}) = 1
    /\ (\A c \in Cs : calls[c].pc # "write" /\ calls[c].err # "write") =>
          \E f \in OrdersOf({c \in Cs : calls[c].err = "nil"}) : SinkBytes = Lines(f)

\* C15 happens: two Handle calls with lines of different lengths both returned
\* nil, the one that was called later having written first.
C15_Witness ==
    \E c \in Cs, d \in Cs :
       /\ c < d
       /\ calls[c].err = "nil"
       /\ calls[d].err = "nil"
       /\ calls[c].fmt # calls[d].fmt
       /\ sink[1].c = d
       /\ Len(sink) = Len(LineOf(c)) + Len(LineOf(d))

\* C16: the mutex is released on every exit path of Handle: a call that has
\* returned, with nil or with the sink's error, holds no mutex, and every call
\* that waits for the mutex goes on to acquire it and to return.
C16_MutexReleased ==
    /\ [](\A c \in Cs : calls[c].pc = "done" => \A l \in mu : l.c # c)
    /\ [](\A c \in Cs : calls[c].err = "write" => calls[c].pc = "done")
    /\ \A c \in 1..MaxWriters :
          (c \in Cs /\ calls[c].pc = "lock") ~>
             (c \in Cs /\ calls[c].pc = "done" /\ calls[c].err \in {"nil", "write"})

\* C16 happens: the sink failed in the middle of one call's line, and a call
\* on another handler of the lineage wrote its whole line after that and
\* returned nil.
C16_Witness ==
    \E c \in Cs, d \in Cs :
       /\ calls[c].h # calls[d].h
       /\ calls[c].err = "write"
       /\ calls[c].written >= 1
       /\ calls[d].err = "nil"
       /\ \A j \in PlacesOf(c), k \in PlacesOf(d) : j < k

RECURSIVE Exclusive(_)
\* no node of the tree has both a value and children
Exclusive(tree) ==
    /\ ~(tree.Value # NilValue /\ Len(tree.Children) > 0)
    /\ \A k \in 1..Len(tree.Children) : Exclusive(tree.Children[k])

\* C17 (leaf/group exclusivity): in every handler's tree and in every Record
\* no node has both a non-nil value and children.
C17_LeafGroupExclusive ==
    /\ \A i \in Hs : Exclusive(TreeOf(heap, handlers[i].root))
    /\ \A c \in Cs : \A k \in 1..Len(calls[c].Attrs) : Exclusive(calls[c].Attrs[k])

RECURSIVE LeavesOf(_)
\* the values of the non-empty leaves of a tree, left to right
LeavesOf(tree) ==
    IF Len(tree.Children) = 0
    THEN IF tree.Value = NilValue THEN <<>> ELSE <<tree.Value>>
    ELSE LET below == [k \in 1..Len(tree.Children) |-> LeavesOf(tree.Children[k])]
             Flat[k \in 0..Len(below)] == IF k = 0 THEN <<>> ELSE Flat[k - 1] \o below[k]
         IN Flat[Len(below)]

\* C18: for every attribute tree, prune(root) ends without a panic (it reads
\* no removed or out-of-range child), leaves no empty node below the root,
\* also where empty children are neighbours and where a group is left empty by
\* the removal of its children, and keeps every non-empty leaf, in order.
C18_PruneComplete ==
    last.op = "prune" =>
       /\ last.ok
       /\ NoEmptyNode(TreeOf(heap, handlers[1].root).Children)
       /\ LeavesOf(TreeOf(heap, handlers[1].root)) = LeavesOf(ghost[1].tree)

\* C19: no step of a Handle call changes the tree or the insertion path of
\* any handler, so the Record of a call is that of its handler and its own
\* event whatever other calls run before or beside it: it holds no attribute
\* of another event, and two calls on a handler with the same event have the
\* same Record.
C19_HandleLeavesHandler ==
    /\ [][calls' # calls =>
             /\ handlers' = handlers
             /\ \A s \in Hs : View(handlers', heap', arrays', s) = View(handlers, heap, arrays, s)]_vars
    /\ [](\A c \in Cs :
             /\ calls[c].err # "panic"
             /\ calls[c].Attrs \in RecordsOf(calls[c].h, calls[c].ev)
             /\ \A d \in Cs :
                   (calls[d].h = calls[c].h /\ calls[d].ev = calls[c].ev) =>
                      calls[d].Attrs = calls[c].Attrs)

\* C19 happens: two Handle calls on the same handler, one with an open group,
\* with events of different attributes, the second begun while the first is
\* writing.
C19_Witness ==
    \E c \in Cs, d \in Cs :
       /\ c < d
       /\ calls[c].h = calls[d].h
       /\ handlers[calls[c].h].gi.len > 0
       /\ calls[c].ev # <<>>
       /\ calls[d].ev # <<>>
       /\ calls[c].ev # calls[d].ev
       /\ calls[c].pc = "write"
       /\ calls[d].pc = "lock"
       /\ calls[c].Attrs # calls[d].Attrs

\* the WithGroup calls among the calls that made handler i
GroupCalls(i) == SelectSeq(History(i), LAMBDA e : e.op = "WithGroup")

\* C20 (insertion-point validity): in every state, for every handler, the walk
\* of getCurrentGroup along groupIndices from the handler's root indexes no
\* child out of range and ends at the group node of the handler's most recent
\* WithGroup call, a node with that name as key and a nil value, or at the
\* root when no WithGroup call made the handler.
C20_InsertionPointValid ==
    \A i \in Hs :
       LET group == getCurrentGroup(heap, arrays, handlers[i], handlers[i].root)
       IN /\ group # OutOfRange
          /\ IF GroupCalls(i) = <<>> THEN group = handlers[i].root
             ELSE /\ group # handlers[i].root
                  /\ heap[group].Key = GroupCalls(i)[Len(GroupCalls(i))].name
                  /\ heap[group].Value = NilValue

====
